---- MODULE Spec2Model ----
(***************************************************************************)
(* The OpenSSL harness of x509-limbo (harness/openssl/main.cpp): main      *)
(* reads limbo.json, evaluates every test case with evaluate_testcase and  *)
(* writes results.json.  JSON values carry their type tag, so that the     *)
(* code's is_null / is_string / is_object / is_array tests are modelled as *)
(* tests of the tag.  OpenSSL and the date library are external: their     *)
(* calls are modelled by their documented results at the call site.        *)
(***************************************************************************)
EXTENDS Integers, Sequences, FiniteSets, TLC

\* Bound of the model: the longest input suite drawn from SuiteCases.
MaxCases == 2

VARIABLES
    limbo,      \* the input file: json::parse(f), main.cpp:193
    now,        \* the wall clock the engine reads when no time is set
    pc,         \* position of the process
    i,          \* index of the for loop of main over limbo["testcases"]
    results,    \* json results of main, main.cpp:195
    ret,        \* the value evaluate_testcase returned for case i
    store,      \* X509_STORE of the current evaluation
    untrusted,  \* STACK_OF(X509) of the current evaluation
    peer,       \* peer certificate of the current evaluation
    param,      \* verification parameters of the X509_STORE_CTX
    does_pass,  \* return value of X509_verify_cert
    error,      \* X509_STORE_CTX_get_error(ctx)
    engine,     \* what the engine answered, per configuration
    nfail,      \* number of "\tFAIL" lines written to std::cerr
    diag,       \* the "Internal error: ..." message of barf, if any
    exitCode,   \* exit status of the process, -1 while it runs
    report,     \* contents of ./results.json
    run,        \* which run of the harness this is (1 or 2)
    report1     \* the report of the first run, kept for comparison

vars == <<limbo, now, pc, i, results, ret, store, untrusted, peer, param,
          does_pass, error, engine, nfail, diag, exitCode, report, run, report1>>

-----------------------------------------------------------------------------
(* JSON values *)

JNull == [type |-> "null", str |-> ""]
JStr(s) == [type |-> "string", str |-> s]
JNum(s) == [type |-> "number", str |-> s]
JArr(items) == [type |-> "array", items |-> items]
JNullArr == [type |-> "null", items |-> <<>>]

\* nlohmann json::emplace_back: a null value becomes an array first.
emplace_back(j, x) ==
    IF j.type = "null" THEN JArr(<<x>>) ELSE JArr(Append(j.items, x))

\* Iterating a json value with a range-for: a null value yields nothing.
Iterate(j) == IF j.type = "array" THEN j.items ELSE <<>>

-----------------------------------------------------------------------------
(* Inputs *)

Ids == {"a", "b"}
Times == {1, 2}

\* Encoded certificates: PEM blobs that decode, and one that does not.
GoodPEM == {"pem(root)", "pem(ca)", "pem(leaf)"}
BadPEM == "garbage"

\* PEM_read_bio_X509: the certificate a blob decodes to, "" (nullptr) if none.
PEM_read_bio_X509(pem) ==
    CASE pem = "pem(root)" -> "root"
      [] pem = "pem(ca)" -> "ca"
      [] pem = "pem(leaf)" -> "leaf"
      [] OTHER -> ""

\* ss >> date::parse("%FT%T%Ez", tp), main.cpp:132-136: the instant read and
\* whether the stream failed.  %Ez demands a numeric offset of the form
\* +hh:mm, so "Z" fails; the extraction stops where the format ends, so
\* what follows a timestamp is left in the stream unread and fails nothing.
date_parse(s) ==
    CASE s = "2023-06-01T00:00:00+00:00" -> [fail |-> FALSE, tp |-> 1]
      [] s = "2023-06-01T00:00:00+00:00 or so" -> [fail |-> FALSE, tp |-> 1]
      [] OTHER -> [fail |-> TRUE, tp |-> 0]

\* a2i_ipadd: the octets of a textual IP address, <<>> when it is none.
a2i_ipadd(s) ==
    CASE s = "192.0.2.1" -> <<192, 0, 2, 1>>
      [] OTHER -> <<>>

ValidationTimes ==
    {JNull, JStr("2023-06-01T00:00:00+00:00"), JStr("2023-06-01T00:00:00Z"),
     JStr("2023-06-01T00:00:00+00:00 or so"), JNum("1685577600")}

NoPeerName == [type |-> "null", kind |-> "", value |-> ""]
PeerName(k, v) == [type |-> "object", kind |-> k, value |-> v]
PeerNames ==
    {NoPeerName,
     [type |-> "string", kind |-> "", value |-> ""],
     PeerName("RFC822", "example.com"),
     PeerName("DNS", "example.com"),
     PeerName("IP", "192.0.2.1"),
     PeerName("IP", "example.com"),
     PeerName("URI", "example.com")}

\* Every combination of the fields evaluate_testcase reads.
AllCases ==
    [id : Ids,
     validation_kind : {"CLIENT", "SERVER"},
     signature_algorithms : {"null", "array"},
     key_usage : {"null", "array"},
     extended_key_usage : {"null", "array"},
     expected_peer_names : {"null", "array"},
     trusted_certs : {JArr(<<"pem(root)">>), JArr(<<BadPEM>>)},
     untrusted_intermediates : {JArr(<<>>), JArr(<<BadPEM>>)},
     peer_certificate : {"pem(leaf)", BadPEM},
     validation_time : ValidationTimes,
     expected_peer_name : PeerNames,
     expected_result : {"SUCCESS", "FAILURE"}]

Base(id) ==
    [id |-> id, validation_kind |-> "CLIENT",
     signature_algorithms |-> "null", key_usage |-> "null",
     extended_key_usage |-> "null", expected_peer_names |-> "null",
     trusted_certs |-> JArr(<<"pem(root)">>),
     untrusted_intermediates |-> JArr(<<"pem(ca)">>),
     peer_certificate |-> "pem(leaf)",
     validation_time |-> JStr("2023-06-01T00:00:00+00:00"),
     expected_peer_name |-> NoPeerName,
     expected_result |-> "SUCCESS"]

\* The cases longer suites are made of.
SuiteCases ==
    {Base("a"),
     [Base("a") EXCEPT !.expected_result = "FAILURE"],
     [Base("b") EXCEPT !.validation_time = JNull, !.expected_result = "FAILURE"],
     [Base("b") EXCEPT !.validation_kind = "SERVER", !.peer_certificate = BadPEM,
                       !.validation_time = JStr("2023-06-01T00:00:00Z"),
                       !.expected_peer_name = PeerName("URI", "example.com")],
     [Base("a") EXCEPT !.signature_algorithms = "array", !.key_usage = "array"],
     [Base("b") EXCEPT !.expected_peer_name = PeerName("DNS", "example.com")],
     [Base("a") EXCEPT !.expected_peer_name = PeerName("IP", "example.com"),
                       !.validation_time = JNull],
     [Base("a") EXCEPT !.validation_time = JNum("1685577600")],
     [Base("b") EXCEPT !.peer_certificate = BadPEM],
     [Base("a") EXCEPT !.untrusted_intermediates = JNullArr,
                       !.trusted_certs = JNullArr],
     [Base("b") EXCEPT !.validation_time = JStr("2023-06-01T00:00:00Z")],
     [Base("a") EXCEPT !.expected_peer_name = PeerName("URI", "example.com")]}

RECURSIVE SeqsUpTo(_, _)
SeqsUpTo(S, n) ==
    IF n = 0 THEN {<<>>}
    ELSE LET shorter == SeqsUpTo(S, n - 1)
         IN shorter \cup {Append(s, x) : s \in {t \in shorter : Len(t) = n - 1}, x \in S}

File(tcs) == [wellformed |-> TRUE, testcases |-> tcs]
MalformedFile == [wellformed |-> FALSE, testcases |-> <<>>]

Suites == {File(tcs) : tcs \in SeqsUpTo(SuiteCases, MaxCases)}
Files == {MalformedFile} \cup Suites \cup {File(<<tc>>) : tc \in AllCases}

-----------------------------------------------------------------------------
(* Values of the program *)

NoResult == [id |-> "", actual_result |-> "", context |-> JNull]
NoReport == [written |-> FALSE, version |-> 0, harness |-> "", results |-> JNullArr]

X509_STORE_new == [flags |-> {}, certs |-> {}]

\* Zeroed verification parameters: no flag, no check time, no identity.
X509_VERIFY_PARAM_new ==
    [flags |-> {}, check_time |-> 0, hostflags |-> {},
     email |-> "", host |-> "", ip |-> <<>>]

\* A context that outlives the evaluation that made it keeps its parameters.
StaleContext == param

\* X509_STORE_CTX_new, main.cpp:127: every evaluation makes a new context,
\* whose verification parameters are zeroed.
X509_STORE_CTX_new == X509_VERIFY_PARAM_new

N == Len(limbo.testcases)
testcase == limbo.testcases[i]

\* X509_verify_cert: 1 accepted, 0 rejected, negative on an engine error.
Outcomes ==
    {[ret |-> 1, error |-> "X509_V_OK"],
     [ret |-> 0, error |-> "X509_V_ERR_CERT_HAS_EXPIRED"],
     [ret |-> -1, error |-> "X509_V_ERR_OUT_OF_MEM"]}

X509_verify_cert_error_string(e) ==
    CASE e = "X509_V_OK" -> "ok"
      [] e = "X509_V_ERR_CERT_HAS_EXPIRED" -> "certificate has expired"
      [] e = "X509_V_ERR_OUT_OF_MEM" -> "out of memory"
      [] OTHER -> "unknown certificate verification error"

-----------------------------------------------------------------------------
\* A barf that reports the error and gives up the case only.
barf_continue(msg) ==
    /\ pc' = "emplace"
    /\ exitCode' = exitCode
    /\ diag' = msg

(* barf, main.cpp:30-34: the message goes to std::cerr and the process exits
   with status 1.  Nothing else of the process survives. *)
barf(msg) ==
    /\ pc' = "aborted"
    /\ exitCode' = 1
    /\ diag' = msg

\* pem_to_x509, main.cpp:36-47: the certificate, "" where the code barfs.
pem_to_x509(pem) == PEM_read_bio_X509(pem)

\* Whether every blob of an array of certificates decodes.
AllDecode(certs) == \A k \in 1..Len(certs) : pem_to_x509(certs[k]) /= ""

\* x509_stack, main.cpp:49-68: the certificates in the order of the array.
x509_stack(certs) == [k \in 1..Len(certs) |-> pem_to_x509(certs[k])]

\* skip, main.cpp:70-81.
skip(id, reason) ==
    [id |-> id, actual_result |-> "SKIPPED", context |-> JStr(reason)]

\* The gate with the tests of key_usage and signature_algorithms exchanged.
FeatureGate_swapped(tc) ==
    IF tc.validation_kind /= "CLIENT" THEN "non-CLIENT testcases not supported yet"
    ELSE IF tc.key_usage /= "null" THEN "key_usage not supported yet"
    ELSE IF tc.signature_algorithms /= "null" THEN "signature_algorithms not supported yet"
    ELSE IF tc.extended_key_usage /= "null" THEN "extended_key_usage not supported yet"
    ELSE IF tc.expected_peer_names /= "null" THEN "expected_peer_names not supported yet"
    ELSE ""

\* The gate without its first test.
FeatureGate_nokind(tc) ==
    IF tc.signature_algorithms /= "null" THEN "signature_algorithms not supported yet"
    ELSE IF tc.key_usage /= "null" THEN "key_usage not supported yet"
    ELSE IF tc.extended_key_usage /= "null" THEN "extended_key_usage not supported yet"
    ELSE IF tc.expected_peer_names /= "null" THEN "expected_peer_names not supported yet"
    ELSE ""

\* The chain of ifs of evaluate_testcase, main.cpp:88-111: the reason of the
\* first test that matches, "" when the case is supported.
FeatureGate(tc) ==
    IF tc.validation_kind /= "CLIENT" THEN "non-CLIENT testcases not supported yet"
    ELSE IF tc.signature_algorithms /= "null" THEN "signature_algorithms not supported yet"
    ELSE IF tc.key_usage /= "null" THEN "key_usage not supported yet"
    ELSE IF tc.extended_key_usage /= "null" THEN "extended_key_usage not supported yet"
    ELSE IF tc.expected_peer_names /= "null" THEN "expected_peer_names not supported yet"
    ELSE ""

\* A classifier that reports a disagreement with expected_result as a failure.
Classify_expected(tc, dp, e) ==
    [id |-> tc.id,
     actual_result |-> IF dp /= 0 /\ tc.expected_result = "SUCCESS"
                       THEN "SUCCESS" ELSE "FAILURE",
     context |-> IF dp /= 0 /\ tc.expected_result = "SUCCESS"
                 THEN JNull ELSE JStr(X509_verify_cert_error_string(e))]

\* The end of evaluate_testcase, main.cpp:171-187: the json it returns for
\* the int dp that X509_verify_cert returned and the context's error e.
\* (dp ? a : b) takes a for every non-zero dp.
Classify(tc, dp, e) ==
    [id |-> tc.id,
     actual_result |-> IF dp /= 0 THEN "SUCCESS" ELSE "FAILURE",
     context |-> IF dp /= 0 THEN JNull ELSE JStr(X509_verify_cert_error_string(e))]

\* should_pass ^ does_pass, main.cpp:171-173: a bool promoted to int, xor an
\* int, is non-zero exactly when the two integers differ.
Mismatch(tc, dp) == (IF tc.expected_result = "SUCCESS" THEN 1 ELSE 0) /= dp

\* What X509_verify_cert is given: the context as the code configured it.
\* Without X509_V_FLAG_USE_CHECK_TIME the engine reads the wall clock.
EngineConfig ==
    [peer |-> peer, trust |-> store.certs, chain |-> untrusted,
     strict |-> "X509_V_FLAG_X509_STRICT" \in param.flags,
     time |-> IF "X509_V_FLAG_USE_CHECK_TIME" \in param.flags
              THEN param.check_time ELSE now,
     email |-> param.email, host |-> param.host,
     hostflags |-> param.hostflags, ip |-> param.ip]

-----------------------------------------------------------------------------
(* The steps of main and of evaluate_testcase *)

InitWith(files) ==
    /\ limbo \in files
    /\ now \in Times
    /\ pc = "parse"
    /\ i = 1
    /\ results = JNullArr
    /\ ret = NoResult
    /\ store = X509_STORE_new
    /\ untrusted = <<>>
    /\ peer = ""
    /\ param = X509_VERIFY_PARAM_new
    /\ does_pass = 0
    /\ error = "X509_V_OK"
    /\ engine = {}
    /\ nfail = 0
    /\ diag = ""
    /\ exitCode = -1
    /\ report = NoReport
    /\ run = 1
    /\ report1 = NoReport

Init == InitWith(Files)

\* main.cpp:192-195: json::parse throws on a malformed file; nothing catches
\* it, so std::terminate aborts the process (SIGABRT, status 134).
ParseInput ==
    /\ pc = "parse"
    /\ IF limbo.wellformed
       THEN /\ pc' = "loop"
            /\ UNCHANGED <<exitCode, diag>>
       ELSE /\ pc' = "aborted"
            /\ exitCode' = 134
            /\ diag' = "json.exception.parse_error"
    /\ i' = 1
    /\ results' = JNullArr
    /\ UNCHANGED <<limbo, now, ret, store, untrusted, peer, param, does_pass,
                   error, engine, nfail, report, run, report1>>

\* main.cpp:196 and evaluate_testcase, main.cpp:83-111: the next test case
\* enters evaluate_testcase, which returns at once when the gate skips it.
Gate ==
    /\ pc = "loop"
    /\ i <= N
    /\ IF FeatureGate(testcase) /= ""
       THEN /\ ret' = skip(testcase.id, FeatureGate(testcase))
            /\ pc' = "emplace"
       ELSE /\ ret' = NoResult
            /\ pc' = "store"
    /\ UNCHANGED <<limbo, now, i, results, store, untrusted, peer, param,
                   does_pass, error, engine, nfail, diag, exitCode, report,
                   run, report1>>

\* main.cpp:113-122: a new strict store, every trusted certificate added.
BuildStore ==
    /\ pc = "store"
    /\ LET certs == Iterate(testcase.trusted_certs)
       IN IF AllDecode(certs)
          THEN /\ store' = [flags |-> X509_STORE_new.flags \cup {"X509_V_FLAG_X509_STRICT"},
                            certs |-> X509_STORE_new.certs
                                      \cup {pem_to_x509(certs[k]) : k \in 1..Len(certs)}]
               /\ pc' = "chain"
               /\ UNCHANGED <<exitCode, diag>>
          ELSE /\ barf("failed to parse cert")
               /\ UNCHANGED store
    /\ UNCHANGED <<limbo, now, i, results, ret, untrusted, peer, param,
                   does_pass, error, engine, nfail, report, run, report1>>

\* main.cpp:124 with x509_stack, main.cpp:49-68.
BuildChain ==
    /\ pc = "chain"
    /\ LET certs == testcase.untrusted_intermediates
       IN IF certs.type /= "array"
          THEN /\ barf("unexpected type: expected an array of certs")
               /\ UNCHANGED untrusted
          ELSE IF ~AllDecode(certs.items)
          THEN /\ barf("failed to parse cert")
               /\ UNCHANGED untrusted
          ELSE /\ untrusted' = x509_stack(certs.items)
               /\ pc' = "peer"
               /\ UNCHANGED <<exitCode, diag>>
    /\ UNCHANGED <<limbo, now, i, results, ret, store, peer, param,
                   does_pass, error, engine, nfail, report, run, report1>>

\* main.cpp:125-128: the peer certificate, and a new context initialised
\* with the store (whose flags it inherits), the peer and the chain.
InitContext ==
    /\ pc = "peer"
    /\ IF pem_to_x509(testcase.peer_certificate) = ""
       THEN /\ barf("failed to parse cert")
            /\ UNCHANGED <<peer, param>>
       ELSE /\ peer' = pem_to_x509(testcase.peer_certificate)
            /\ param' = [X509_STORE_CTX_new EXCEPT
                           !.flags = X509_STORE_CTX_new.flags \cup store.flags]
            /\ pc' = "time"
            /\ UNCHANGED <<exitCode, diag>>
    /\ UNCHANGED <<limbo, now, i, results, ret, store, untrusted,
                   does_pass, error, engine, nfail, report, run, report1>>

\* main.cpp:130-143: only a string is parsed; X509_STORE_CTX_set_time sets
\* the check time and X509_V_FLAG_USE_CHECK_TIME.
SetTime ==
    /\ pc = "time"
    /\ IF testcase.validation_time.type = "string"
       THEN LET parsed == date_parse(testcase.validation_time.str)
            IN IF parsed.fail
               THEN /\ barf("couldn't parse RFC 3339 time from testcase?")
                    /\ UNCHANGED param
               ELSE /\ param' = [param EXCEPT
                                   !.check_time = parsed.tp,
                                   !.flags = @ \cup {"X509_V_FLAG_USE_CHECK_TIME"}]
                    /\ pc' = "name"
                    /\ UNCHANGED <<exitCode, diag>>
       ELSE /\ pc' = "name"
            /\ UNCHANGED <<param, exitCode, diag>>
    /\ UNCHANGED <<limbo, now, i, results, ret, store, untrusted, peer,
                   does_pass, error, engine, nfail, report, run, report1>>

\* main.cpp:145-169: only an object is looked at; the return values of the
\* three setters are not read.  X509_VERIFY_PARAM_set1_ip_asc returns 0 and
\* leaves the parameters alone when a2i_ipadd cannot read the address.
SetPeerName ==
    /\ pc = "name"
    /\ LET epn == testcase.expected_peer_name
       IN IF epn.type /= "object"
          THEN /\ pc' = "verify"
               /\ UNCHANGED <<param, exitCode, diag>>
          ELSE IF epn.kind = "RFC822"
          THEN /\ param' = [param EXCEPT !.email = epn.value]
               /\ pc' = "verify"
               /\ UNCHANGED <<exitCode, diag>>
          ELSE IF epn.kind = "DNS"
          THEN /\ param' = [param EXCEPT
                              !.hostflags = {"X509_CHECK_FLAG_NO_PARTIAL_WILDCARDS"},
                              !.host = epn.value]
               /\ pc' = "verify"
               /\ UNCHANGED <<exitCode, diag>>
          ELSE IF epn.kind = "IP"
          THEN /\ param' = [param EXCEPT !.ip = a2i_ipadd(epn.value)]
               /\ pc' = "verify"
               /\ UNCHANGED <<exitCode, diag>>
          ELSE /\ barf("unexpected peer kind")
               /\ UNCHANGED param
    /\ UNCHANGED <<limbo, now, i, results, ret, store, untrusted, peer,
                   does_pass, error, engine, nfail, report, run, report1>>

\* main.cpp:171-187: the engine is invoked once; it answers a configuration
\* it has answered before the same way.  The comparison with expected_result
\* writes a line to std::cerr and nothing else.
Verify ==
    /\ pc = "verify"
    /\ \E o \in Outcomes :
         /\ \A e \in engine : e[1] = EngineConfig => e[2] = o
         /\ engine' = engine \cup {<<EngineConfig, o>>}
         /\ does_pass' = o.ret
         /\ error' = o.error
         /\ nfail' = IF Mismatch(testcase, o.ret) THEN nfail + 1 ELSE nfail
         /\ ret' = Classify(testcase, o.ret, o.error)
    /\ pc' = "emplace"
    /\ UNCHANGED <<limbo, now, i, results, store, untrusted, peer, param,
                   diag, exitCode, report, run, report1>>

\* main.cpp:198: the returned json is appended to results.
EmplaceBack ==
    /\ pc = "emplace"
    /\ results' = emplace_back(results, ret)
    /\ ret' = NoResult
    /\ i' = i + 1
    /\ pc' = "loop"
    /\ UNCHANGED <<limbo, now, store, untrusted, peer, param, does_pass, error,
                   engine, nfail, diag, exitCode, report, run, report1>>

\* main.cpp:201-209: the report is written after the loop, and main returns 0.
WriteReport ==
    /\ pc = "loop"
    /\ i > N
    /\ report' = [written |-> TRUE, version |-> 1, harness |-> "openssl-3.x",
                  results |-> results]
    /\ exitCode' = 0
    /\ pc' = "done"
    /\ UNCHANGED <<limbo, now, i, results, ret, store, untrusted, peer, param,
                   does_pass, error, engine, nfail, diag, run, report1>>

evaluate_testcase ==
    \/ Gate
    \/ BuildStore
    \/ BuildChain
    \/ InitContext
    \/ SetTime
    \/ SetPeerName
    \/ Verify

main ==
    \/ ParseInput
    \/ evaluate_testcase
    \/ EmplaceBack
    \/ WriteReport

Next == main

Spec == Init /\ [][Next]_vars

\* A second run of the harness on the same file, against the same engine, at
\* a wall-clock time of its own.  The new process starts from scratch; the
\* report of the first run is still on disk.
Rerun ==
    /\ pc = "done"
    /\ run = 1
    /\ run' = 2
    /\ report1' = report
    /\ now' \in Times
    /\ pc' = "parse"
    /\ i' = 1
    /\ results' = JNullArr
    /\ ret' = NoResult
    /\ store' = X509_STORE_new
    /\ untrusted' = <<>>
    /\ peer' = ""
    /\ param' = X509_VERIFY_PARAM_new
    /\ does_pass' = 0
    /\ error' = "X509_V_OK"
    /\ nfail' = 0
    /\ diag' = ""
    /\ exitCode' = -1
    /\ UNCHANGED <<limbo, engine, report>>

InitTwice == InitWith(Suites)

NextTwice ==
    \/ main
    \/ Rerun

SpecTwice == InitTwice /\ [][NextTwice]_vars

-----------------------------------------------------------------------------
(* What the claims are stated with: the descriptor's own reading, written
   without the operators of the code *)

\* The numbers of the gate's conditions (in the order of the specification)
\* that a test case matches.
Matching(tc) ==
    {k \in 1..5 :
        \/ k = 1 /\ tc.validation_kind /= "CLIENT"
        \/ k = 2 /\ tc.signature_algorithms /= "null"
        \/ k = 3 /\ tc.key_usage /= "null"
        \/ k = 4 /\ tc.extended_key_usage /= "null"
        \/ k = 5 /\ tc.expected_peer_names /= "null"}

Reason(k) ==
    CASE k = 1 -> "non-CLIENT testcases not supported yet"
      [] k = 2 -> "signature_algorithms not supported yet"
      [] k = 3 -> "key_usage not supported yet"
      [] k = 4 -> "extended_key_usage not supported yet"
      [] k = 5 -> "expected_peer_names not supported yet"

Lowest(S) == CHOOSE k \in S : \A m \in S : k <= m

Gated(tc) == Matching(tc) /= {}

\* The process is inside the evaluation of test case i, or has returned
\* from it and not yet stored its result.
Evaluating == pc \in {"store", "chain", "peer", "time", "name", "verify", "emplace"}

\* The process stopped inside the evaluation of test case i.
AbortedInCase == pc = "aborted" /\ limbo.wellformed

\* The evaluation of test case i went through the engine.
Evaluated == pc = "emplace" /\ ~Gated(testcase)

Decodes(pem) == pem \in GoodPEM

\* The instant an RFC 3339 timestamp with a numeric offset denotes, 0 for a
\* string that is no such timestamp.
InstantOf(s) ==
    CASE s = "2023-06-01T00:00:00+00:00" -> 1
      [] OTHER -> 0

\* A descriptor with one of the defects the specification calls fatal.
Defective(tc) ==
    \/ \E k \in 1..Len(tc.trusted_certs.items) : ~Decodes(tc.trusted_certs.items[k])
    \/ tc.untrusted_intermediates.type /= "array"
    \/ \E k \in 1..Len(tc.untrusted_intermediates.items) :
          ~Decodes(tc.untrusted_intermediates.items[k])
    \/ ~Decodes(tc.peer_certificate)
    \/ tc.validation_time = JStr("2023-06-01T00:00:00Z")
    \/ tc.expected_peer_name.type = "object"
       /\ tc.expected_peer_name.kind \notin {"RFC822", "DNS", "IP"}

FatalMessages ==
    {"json.exception.parse_error", "failed to parse cert",
     "unexpected type: expected an array of certs",
     "couldn't parse RFC 3339 time from testcase?", "unexpected peer kind"}

-----------------------------------------------------------------------------
(* C1: one Result per TestCase, in input order.  When the run ends without a
   fatal error, the report's results is an array with exactly N entries, and
   the i-th entry's id is the i-th test case's id, for every N >= 0. *)
C1_OneResultPerCase ==
    pc = "done" =>
        /\ report.written
        /\ report.results.type = "array"
        /\ Len(report.results.items) = N
        /\ \A k \in 1..N : report.results.items[k].id = limbo.testcases[k].id

(* C2: the gate's first matching condition wins.  The result returned for a
   case that matches some of the five conditions is SKIPPED with the reason of
   the lowest-numbered one; a case that matches none is not skipped. *)
C2_FirstMatchWins ==
    pc = "emplace" =>
        IF Gated(testcase)
        THEN ret = [id |-> testcase.id, actual_result |-> "SKIPPED",
                    context |-> JStr(Reason(Lowest(Matching(testcase))))]
        ELSE ret.actual_result /= "SKIPPED"

\* C2's case: a case matching several conditions, the first not among them.
C2_Witness ==
    /\ pc = "emplace"
    /\ Matching(testcase) = {3, 5}
    /\ ret.context = JStr("key_usage not supported yet")

(* C3: an evaluated case is SUCCESS with a null context exactly when the
   engine accepted (X509_verify_cert returned 1), and FAILURE with a non-null
   diagnostic for every other outcome of the engine; every collected Result
   has a non-null context when SKIPPED or FAILURE and a null one when
   SUCCESS. *)
C3_SuccessIffAccepted ==
    /\ Evaluated =>
          /\ does_pass = 1 => ret.actual_result = "SUCCESS" /\ ret.context = JNull
          /\ does_pass /= 1 =>
                ret.actual_result = "FAILURE" /\ ret.context.type = "string"
    /\ \A k \in 1..Len(results.items) :
          LET r == results.items[k]
          IN /\ r.actual_result \in {"SKIPPED", "FAILURE"} =>
                    r.context.type = "string" /\ r.context.str /= ""
             /\ r.actual_result = "SUCCESS" => r.context = JNull

(* C4: a case the gate rejects bypasses the rest of the pipeline.  It is never
   at a step that materializes a certificate, parses a timestamp or a peer
   name, or invokes the engine, and never aborts the run: it returns SKIPPED,
   whatever its other fields hold, and the step that skips it touches neither
   the store, the chain, the peer, the context nor the engine. *)
C4_GateBypassesPipeline ==
    /\ [](Evaluating /\ Gated(testcase) =>
            pc = "emplace" /\ ret.actual_result = "SKIPPED" /\ ret.id = testcase.id)
    /\ [](AbortedInCase => ~Gated(testcase))
    /\ [][pc = "loop" /\ i <= N /\ Gated(limbo.testcases[i]) =>
            /\ pc' = "emplace"
            /\ UNCHANGED <<store, untrusted, peer, param, engine, does_pass,
                           error, exitCode, diag>>]_vars

\* C4's case: a skipped non-CLIENT case whose certificate, timestamp and
\* peer-name kind are all malformed.
C4_Witness ==
    /\ pc = "emplace"
    /\ testcase.validation_kind = "SERVER"
    /\ testcase.peer_certificate = BadPEM
    /\ testcase.trusted_certs = JArr(<<BadPEM>>)
    /\ testcase.validation_time = JStr("2023-06-01T00:00:00Z")
    /\ testcase.expected_peer_name = PeerName("URI", "example.com")
    /\ ret.actual_result = "SKIPPED"

(* C5: a fatal error ends the run at once.  After it the exit code is not 0,
   no step is taken (no later case is evaluated), and no report exists, the
   results collected so far included.  No supported case with a malformed
   certificate, an unparsable timestamp string or an unknown peer-name kind
   gets a Result, and a malformed file gets none at all.  The report exists
   only once every case has been processed, and only then is the exit code
   0. *)
C5_FatalErrorsAbort ==
    /\ pc = "aborted" =>
          /\ exitCode \notin {-1, 0}
          /\ ~report.written
          /\ ~ENABLED Next
          /\ diag \in FatalMessages
    /\ ~limbo.wellformed => pc \in {"parse", "aborted"}
    /\ Evaluated => ~Defective(testcase)
    /\ pc = "loop" => \A k \in 1..(i - 1) :
          ~Gated(limbo.testcases[k]) => ~Defective(limbo.testcases[k])
    /\ report.written =>
          /\ pc = "done"
          /\ i = N + 1
          /\ Len(report.results.items) = N
    /\ exitCode = 0 <=> report.written
    /\ exitCode = 0 <=> pc = "done"

\* C5's case: a fatal error at the second case, one Result already collected.
C5_Witness ==
    /\ pc = "aborted"
    /\ i = 2
    /\ Len(results.items) = 1
    /\ exitCode = 1
    /\ ~report.written

\* The same descriptor with the other expected_result.
Flip(tc) ==
    [tc EXCEPT !.expected_result = IF @ = "SUCCESS" THEN "FAILURE" ELSE "SUCCESS"]

(* C6: expected_result is informational.  The Result of an evaluated case is
   the one the case would get with the other expected_result; two cases of a
   suite that differ in expected_result alone, and fix the time, get the same
   Result; a run never aborts for a mismatch; and a run that logged
   mismatches still processes every case and exits with code 0. *)
C6_ExpectationIsInformational ==
    /\ Evaluated =>
          /\ ret.id = testcase.id
          /\ ret.actual_result \in {"SUCCESS", "FAILURE"}
          /\ \A o \in Outcomes :
                o.ret = does_pass /\ o.error = error =>
                    ret = Classify(Flip(testcase), o.ret, o.error)
    /\ pc = "aborted" => diag \in FatalMessages
    /\ pc = "done" =>
          /\ exitCode = 0
          /\ Len(report.results.items) = N
          /\ \A j, k \in 1..N :
                /\ limbo.testcases[j] = Flip(limbo.testcases[k])
                /\ ~Gated(limbo.testcases[k])
                /\ limbo.testcases[k].validation_time.type = "string"
                => report.results.items[j] = report.results.items[k]

\* C6's case: a finished run of two cases that differ in expected_result
\* alone, one of which disagreed with the engine.
C6_Witness ==
    /\ pc = "done"
    /\ N = 2
    /\ limbo.testcases[1] = Flip(limbo.testcases[2])
    /\ ~Gated(limbo.testcases[1])
    /\ nfail = 1
    /\ exitCode = 0
    /\ report.results.items[1] = report.results.items[2]

(* C7: the engine is invoked with the identity constraint of the case.  With
   expected_peer_name present, the constraint is the email, the DNS name
   (partial wildcards disabled) or the IP address that kind and value name;
   with it absent, there is none.  A case with expected_peer_name present is
   never evaluated without an identity constraint. *)
C7_PeerNameAlwaysConstrains ==
    pc = "verify" =>
        LET epn == testcase.expected_peer_name
        IN /\ epn.type = "null" =>
                param.email = "" /\ param.host = "" /\ param.ip = <<>>
           /\ epn.type /= "null" =>
                \/ epn.kind = "RFC822" /\ param.email = epn.value /\ epn.value /= ""
                \/ /\ epn.kind = "DNS" /\ param.host = epn.value /\ epn.value /= ""
                   /\ "X509_CHECK_FLAG_NO_PARTIAL_WILDCARDS" \in param.hostflags
                \/ /\ epn.kind = "IP" /\ param.ip /= <<>>
                   /\ param.ip = a2i_ipadd(epn.value)

(* C8: a case whose validation_time is present is evaluated at that instant or
   not at all.  When the engine is invoked for a case with a non-null
   validation_time, its check time is set to the instant the value denotes;
   for a case with a null validation_time no check time is set. *)
C8_PresentTimeOverrides ==
    pc = "verify" =>
        LET vt == testcase.validation_time
            set == "X509_V_FLAG_USE_CHECK_TIME" \in param.flags
        IN /\ vt.type = "null" => ~set
           /\ vt.type /= "null" =>
                set /\ InstantOf(vt.str) /= 0 /\ param.check_time = InstantOf(vt.str)

(* C9: two runs on the same file against the same engine agree.  When the
   second run ends, its report holds the same Result as the first run's at
   every position whose case carries a validation_time or is skipped. *)
C9_RunsAgree ==
    run = 2 /\ pc = "done" =>
        /\ report1.results.type = report.results.type
        /\ Len(report1.results.items) = Len(report.results.items)
        /\ \A k \in 1..Len(report.results.items) :
              \/ limbo.testcases[k].validation_time.type /= "null"
              \/ Gated(limbo.testcases[k])
              => report1.results.items[k] = report.results.items[k]

\* What the engine is given when nothing but the descriptor of the case (and
\* the clock) decides it: the configuration an evaluation with no case
\* before it derives from the descriptor.
ConfigOf(tc, clock) ==
    LET epn == tc.expected_peer_name
        named(kind) == epn.type = "object" /\ epn.kind = kind
    IN [peer |-> pem_to_x509(tc.peer_certificate),
        trust |-> {pem_to_x509(tc.trusted_certs.items[k]) :
                      k \in 1..Len(tc.trusted_certs.items)},
        chain |-> [k \in 1..Len(tc.untrusted_intermediates.items) |->
                      pem_to_x509(tc.untrusted_intermediates.items[k])],
        strict |-> TRUE,
        time |-> IF tc.validation_time.type = "string"
                 THEN date_parse(tc.validation_time.str).tp ELSE clock,
        email |-> IF named("RFC822") THEN epn.value ELSE "",
        host |-> IF named("DNS") THEN epn.value ELSE "",
        hostflags |-> IF named("DNS")
                      THEN {"X509_CHECK_FLAG_NO_PARTIAL_WILDCARDS"} ELSE {},
        ip |-> IF named("IP") THEN a2i_ipadd(epn.value) ELSE <<>>]

(* C10: no state of one case reaches the next.  Whatever cases came before,
   the store, the chain, the peer, the time and the identity constraint the
   engine is invoked with are those the descriptor of the current case alone
   determines; and the result collection only grows, by the Result of the
   case just evaluated. *)
C10_NoStateLeaks ==
    /\ [](pc = "verify" => EngineConfig = ConfigOf(testcase, now))
    /\ [][results' /= results =>
            \/ pc = "emplace" /\ results'.items = Append(results.items, ret)
            \/ pc = "parse" /\ results' = JNullArr]_vars

\* C10's case: the engine about to be invoked for a second case with neither
\* time nor peer name, after a first case that set both.
C10_Witness ==
    /\ pc = "verify"
    /\ i = 2
    /\ limbo.testcases[1].validation_time.type = "string"
    /\ limbo.testcases[1].expected_peer_name = PeerName("DNS", "example.com")
    /\ ~Gated(limbo.testcases[1])
    /\ testcase.validation_time = JNull
    /\ testcase.expected_peer_name = NoPeerName
    /\ param.host = ""
    /\ "X509_V_FLAG_USE_CHECK_TIME" \notin param.flags

====
